---- MODULE Spec2Model ----
(***************************************************************************)
(* diffanalyze: attribution of changed lines of a git history to the       *)
(* functions that hold them.                                               *)
(*                                                                         *)
(* Three entry points of the repository are modelled:                      *)
(*   - diffanalyze.py, FileDifferences / RepoManager.compute_diffs         *)
(*     (per-line containment against the ctags tables of both images);     *)
(*   - diffanalyze.py, RepoManager.compare_patches_in_range (the walk);    *)
(*   - diffanalyze2.py, generate_repository_changes (interval test).       *)
(*                                                                         *)
(* git and ctags are external: what they hand to the program (commit       *)
(* graph, hunks, tag entries) is drawn from bounded sets.                  *)
(***************************************************************************)
EXTENDS Integers, Sequences, FiniteSets, TLC

\* ------------------------------------------------------------------ bounds
\* highest line number of a file image
MaxLine == 2
\* highest number of entries one ctags run reports
MaxTags == 2
\* highest number of hunks of one patch
MaxHunks == 2
\* highest number of patches (changed files) of one diff
MaxPatches == 2
\* highest number of commits handed to compute_diffs
MaxCommits == 2
\* highest number of entries of one ctags run where whole commits are studied
MaxPatchTags == 1

\* commits of the repository; changed lines and patches of a diff a walk looks at
MaxGraph == 3

MaxWalkChanges == 1

MaxWalkPatches == 1

\* calls of the reporting methods on one diff summary
MaxReports == 2

\* function names ctags may report
Names == {"foo", "bar"}
Lines == 1..MaxLine

\* ------------------------------------------------------------ sequence helpers
Range(s) == {s[i] : i \in DOMAIN s}

RECURSIVE Count(_, _)
Count(s, x) ==
    IF s = <<>> THEN 0
    ELSE (IF Head(s) = x THEN 1 ELSE 0) + Count(Tail(s), x)

RECURSIVE SeqsUpTo(_, _)
\* all sequences over S of length at most n
SeqsUpTo(S, n) ==
    IF n = 0 THEN {<<>>}
    ELSE LET shorter == SeqsUpTo(S, n - 1)
         IN  shorter \cup {Append(s, x) : s \in {t \in shorter : Len(t) = n - 1}, x \in S}

\* all orders in which a set can be iterated
Orders(S) ==
    {s \in SeqsUpTo(S, Cardinality(S)) : Len(s) = Cardinality(S) /\ Range(s) = S}

\* ------------------------------------------------------------ ctags (external)
\* One json object of the ctags output.  end = 0 stands for an object without
\* the key 'end'.
TagEntries ==
    {[name |-> n, line |-> l, end |-> e, kind |-> k] :
        n \in Names, l \in Lines, e \in 0..MaxLine, k \in {"function", "prototype"}}

CtagsOutputsUpTo(n) ==
    SeqsUpTo({t \in TagEntries : t.end = 0 \/ t.line <= t.end}, n)

CtagsOutputs == CtagsOutputsUpTo(MaxTags)

\* ------------------------------------------------------------ diffanalyze.py
\* FnAttributes.__init__ (the prototype text plays no part in attribution)
FnAttributes(start, end) == [start_line |-> start, end_line |-> end]

\* A fn_map is held as a function over Names; a name is a key of the python
\* dict iff its list is not empty (the code never stores an empty list).
EmptyFnMap == [n \in Names |-> <<>>]

HasKey(fn_map, fn_name) == fn_map[fn_name] # <<>>

Keys(fn_map) == {n \in Names : HasKey(fn_map, n)}

\* get_fn_names: fn_data['end'] if 'end' in fn_data else fn_data['line']
EndOrLine(fn_data) == IF fn_data.end # 0 THEN fn_data.end ELSE fn_data.line

IsFunctionKind(fn_data) == fn_data.kind = "function"

\* one round of the loop of get_fn_names
AddTag(fn_map, fn_data) ==
    LET new_item == FnAttributes(fn_data.line, EndOrLine(fn_data))
    IN  IF HasKey(fn_map, fn_data.name) /\ IsFunctionKind(fn_data)
        THEN [fn_map EXCEPT ![fn_data.name] = Append(@, new_item)]
        ELSE IF IsFunctionKind(fn_data)
        THEN [fn_map EXCEPT ![fn_data.name] = <<new_item>>]
        ELSE fn_map

RECURSIVE FoldTags(_, _)
FoldTags(fn_map, fn_table) ==
    IF fn_table = <<>> THEN fn_map
    ELSE FoldTags(AddTag(fn_map, Head(fn_table)), Tail(fn_table))

\* FileDifferences.get_fn_names: err is "ctags wrote to stderr"
get_fn_names(out, err) == IF err THEN EmptyFnMap ELSE FoldTags(EmptyFnMap, out)

\* mutant: the end line is excluded
ContainsExclusive(line_no, fn_attr) ==
    line_no >= fn_attr.start_line /\ line_no < fn_attr.end_line

\* the containment test of match_lines_to_fn
Contains(line_no, fn_attr) ==
    line_no >= fn_attr.start_line /\ line_no <= fn_attr.end_line

\* mutant: the loop over the variants stops after the first one
LinesInFirstVariant(variants, lines) ==
    IF variants = <<>> THEN <<>>
    ELSE SelectSeq(lines, LAMBDA l : l >= Head(variants).start_line
                                     /\ l <= Head(variants).end_line)

RECURSIVE LinesInVariants(_, _)
\* the nested loops of match_lines_to_fn: for each variant, for each line
LinesInVariants(variants, lines) ==
    IF variants = <<>> THEN <<>>
    ELSE SelectSeq(lines, LAMBDA l : Contains(l, Head(variants)))
         \o LinesInVariants(Tail(variants), lines)

\* fn_to_changed_lines is a python dict: a sequence of records in insertion
\* order, at most one per name
RecordIndex(ftcl, fn_name) == {i \in DOMAIN ftcl : ftcl[i].fn_name = fn_name}

HasRecord(ftcl, fn_name) == RecordIndex(ftcl, fn_name) # {}

ChangedLinesManager(fn_name, added, removed) ==
    [fn_name |-> fn_name, added_lines |-> added, removed_lines |-> removed]

\* mutant: the lines of the old image are tested against the new image's table
RemovedAgainstCurrent(cur, prev, fn_name, old_lines) ==
    LinesInVariants(cur[fn_name], old_lines)

RemovedOf(cur, prev, fn_name, old_lines) ==
    LinesInVariants(prev[fn_name], old_lines)

AddedOf(cur, prev, fn_name, new_lines) ==
    LinesInVariants(cur[fn_name], new_lines)

\* the tail of one round of match_lines_to_fn: extend the record or open one
StoreLines(ftcl, fn_name, added, removed) ==
    IF HasRecord(ftcl, fn_name)
    THEN [i \in DOMAIN ftcl |->
            IF ftcl[i].fn_name = fn_name
            THEN [ftcl[i] EXCEPT !.added_lines = @ \o added,
                                 !.removed_lines = @ \o removed]
            ELSE ftcl[i]]
    ELSE IF added # <<>> \/ removed # <<>>
    THEN Append(ftcl, ChangedLinesManager(fn_name, added, removed))
    ELSE ftcl

\* mutant: success is set whenever the name is looked at
AlwaysSucceeds(ftcl, fn_name, added, removed) == TRUE

\* whether that round sets success
StoreSucceeds(ftcl, fn_name, added, removed) ==
    HasRecord(ftcl, fn_name) \/ added # <<>> \/ removed # <<>>

RECURSIVE MatchLoop(_, _, _, _, _, _)
\* the loop of match_lines_to_fn over the names, in the order the set hands
\* them out; yields the dict and the return value
MatchLoop(order, cur, prev, acc, new_lines, old_lines) ==
    IF order = <<>> THEN acc
    ELSE LET fn_name == Head(order)
             added   == AddedOf(cur, prev, fn_name, new_lines)
             removed == RemovedOf(cur, prev, fn_name, old_lines)
         IN  MatchLoop(Tail(order), cur, prev,
                 [ftcl    |-> StoreLines(acc.ftcl, fn_name, added, removed),
                  success |-> acc.success
                              \/ StoreSucceeds(acc.ftcl, fn_name, added, removed)],
                 new_lines, old_lines)

\* FileDifferences.match_lines_to_fn
match_lines_to_fn(order, cur, prev, ftcl, new_lines, old_lines) ==
    MatchLoop(order, cur, prev, [ftcl |-> ftcl, success |-> FALSE],
              new_lines, old_lines)

\* ------------------------------------------------------------ hunks (external)
\* A hunk of a zero-context diff: oc lines removed at old line p, then nc lines
\* added; d is the number of lines the earlier hunks of the patch have added
\* less the number they removed.
DiffLine(new_no, old_no, blank) ==
    [new_lineno |-> new_no, old_lineno |-> old_no, blank |-> blank]

HunkOf(p, oc, nc, d, bo, bn) ==
    [i \in 1..oc |-> DiffLine(-1, p + i - 1, bo[i])]
    \o [i \in 1..nc |-> DiffLine(p + d + i - 1, -1, bn[i])]

Hunks(from, d) ==
    {HunkOf(p, oc, nc, d, bo, bn) :
        <<p, oc, nc, bo, bn>> \in
            {<<p, oc, nc, bo, bn>> \in
                 (from..(MaxLine + 1)) \X (0..MaxLine) \X (0..MaxLine)
                 \X [1..MaxLine -> BOOLEAN] \X [1..MaxLine -> BOOLEAN] :
                 /\ oc + nc >= 1
                 /\ p + oc - 1 <= MaxLine
                 /\ p + d + nc - 1 <= MaxLine
                 /\ \A i \in (oc + 1)..MaxLine : ~bo[i]
                 /\ \A i \in (nc + 1)..MaxLine : ~bn[i]}}

KeepsBlank(diff_line) == TRUE

\* compute_diffs: "if not diff_line.content.strip(): continue"
HasContent(diff_line) == ~diff_line.blank

\* compute_diffs, the loop over hunk.lines
NewFnLines(lines) ==
    LET kept == SelectSeq(lines, LAMBDA dl : HasContent(dl) /\ dl.new_lineno > -1)
    IN  [i \in DOMAIN kept |-> kept[i].new_lineno]

OldFnLines(lines) ==
    LET kept == SelectSeq(lines, LAMBDA dl : HasContent(dl) /\ ~(dl.new_lineno > -1))
    IN  [i \in DOMAIN kept |-> kept[i].old_lineno]

\* ------------------------------------------------------------ files (external)
\* A file name is the sequence of its characters.
Filenames ==
    {<<"a", ".", "c">>, <<"b", ".", "c">>, <<"n", ".", "m", "d">>, <<"R">>}

\* the file FileDifferences is studied on alone
TheFile == <<"a", ".", "c">>

\* str.rfind('.'): the highest index of a dot, 0 when there is none
RFindDot(filename) ==
    LET dots == {i \in DOMAIN filename : filename[i] = "."}
    IN  IF dots = {} THEN 0 ELSE CHOOSE i \in dots : \A j \in dots : j <= i

\* FileDifferences.get_extension
get_extension(filename) ==
    LET found == RFindDot(filename)
    IN  IF found >= 1 THEN SubSeq(filename, found, Len(filename))
        ELSE <<"n", "o", "n", "e">>

\* RepoManager.allowed_extensions
allowed_extensions == {<<".", "c">>}

\* compute_diffs: c_ext
c_ext == <<".", "c">>

\* the keys other_changed may get; a key is in the python dict iff its set is
\* not empty (the code adds a commit right after it creates the set)
Extensions == {get_extension(f) : f \in Filenames} \cup {c_ext}

NoOtherChanged == [e \in Extensions |-> {}]

\* The filters: <<>> is "no --path-filter" (None); any other is the literal the
\* regular expression starts with, which re.match finds at the start of the name.
PathFilters == {<<>>, <<"a">>, <<"n">>}

\* compute_diffs: "self.path_filter and not self.path_filter.match(filename)"
FilteredOut(filter, filename) ==
    /\ filter # <<>>
    /\ ~(Len(filter) <= Len(filename) /\ SubSeq(filename, 1, Len(filter)) = filter)

\* the diffs handed to compute_diffs: no file twice
PatchLists ==
    {ps \in SeqsUpTo(Filenames, MaxPatches) :
        \A i, j \in DOMAIN ps : i # j => ps[i] # ps[j]}

\* one element of DiffSummary.file_diffs: the file and its dict
FileDiff(filename, ftcl) == [filename |-> filename, fn_to_changed_lines |-> ftcl]

\* mutant: the commit is not added to the set
NotAdded(oc, extension, hex) == oc

\* self.other_changed[extension].add(commit_new.hex)
AddCommit(oc, extension, hex) == [oc EXCEPT ![extension] = @ \cup {hex}]

\* ------------------------------------------------------------ diffanalyze2.py
\* gather_diff_information: the dict of one line of a hunk.  blank is not a key
\* of the dict: it says whether the line's content is whitespace, which the
\* summary leaves out.
ChangeOf(diff_line, nr) ==
    [add |-> diff_line.new_lineno, remove |-> diff_line.old_lineno, nr |-> nr,
     blank |-> diff_line.blank]

RECURSIVE HunkSeqs(_, _, _)
\* the hunks of one patch, their lines in one sequence
HunkSeqs(from, d, n) ==
    {<<>>}
    \cup
    (IF n = 0 THEN {}
     ELSE UNION {
        LET oc == Cardinality({i \in DOMAIN h : h[i].old_lineno > -1})
            nc == Cardinality({i \in DOMAIN h : h[i].new_lineno > -1})
            p  == IF oc > 0 THEN h[1].old_lineno ELSE h[1].new_lineno - d
        IN  {h \o rest : rest \in HunkSeqs(p + oc + 1, d + nc - oc, n - 1)} :
        h \in Hunks(from, d)})

\* pygit2's DiffLine.num_lines: the newlines of the line's content, 1, or 0 for
\* a last line that has none
ChangeLists ==
    UNION {{[i \in DOMAIN ls |-> ChangeOf(ls[i], nrs[i])] :
               nrs \in [DOMAIN ls -> {0, 1}]} :
           ls \in HunkSeqs(1, 0, MaxHunks)}

\* the summary of one patch; has_new_file is "'new_file' in single_change"
PatchSummary(file_name, has_new_file, changes) ==
    [new_file |-> file_name, has_new_file |-> has_new_file, changes |-> changes]

\* "functions = [{'name': ..., 'start': ..., 'end': ...} for f in file_structure
\*  if f.get('kind', '') == 'function']"; end = 0 is None
FunctionsOf(structure) ==
    LET fs == SelectSeq(structure, LAMBDA f : f.kind = "function")
    IN  [i \in DOMAIN fs |-> [name |-> fs[i].name, start |-> fs[i].line, end |-> fs[i].end]]

\* mutant: change_end is the line of the change itself
ChangeEndIsStart(change) == change.add

\* "change_end = change_start + change['nr']"
ChangeEnd(change) == change.add + change.nr

\* mutant: the function has to hold both ends of the change
MatchBothEnds(f, change_start, change_end) ==
    /\ f.start <= change_start /\ change_start <= f.end
    /\ f.start <= change_end /\ change_end <= f.end

\* the three tests of generate_repository_changes
IntervalMatch(f, change_start, change_end) ==
    \/ (f.start <= change_start /\ change_start <= f.end)
    \/ (f.start <= change_end /\ change_end <= f.end)
    \/ (change_start <= f.start /\ f.start <= change_end)

\* mutant: a function without end reaches the last line of the file
EndKnownOrLast(f) == TRUE

\* "if not f['end']: ... continue" lets only these functions through
EndKnown(f) == f.end # 0

\* commit_change is a dict of dicts of lists: a function over the files and the
\* names; a key is in the python dict iff its list is not empty (setdefault is
\* followed by append)
NoCommitChange == [f \in Filenames |-> [n \in Names |-> <<>>]]

RECURSIVE FunctionLoop(_, _, _, _)
\* "for f in functions" for one change
FunctionLoop(cc, file_name, functions, change) ==
    IF functions = <<>> THEN cc
    ELSE LET f            == Head(functions)
             change_start == change.add
             change_end   == ChangeEnd(change)
             next ==
                 IF EndKnown(f) /\ IntervalMatch(f, change_start, change_end)
                 THEN [cc EXCEPT ![file_name][f.name] =
                           Append(@, <<change_start, change_end>>)]
                 ELSE cc
         IN  FunctionLoop(next, file_name, Tail(functions), change)

RECURSIVE ChangeLoop(_, _, _, _)
\* "for change in single_change['changes']", removals skipped
ChangeLoop(cc, file_name, functions, changes) ==
    IF changes = <<>> THEN cc
    ELSE LET change == Head(changes)
             next == IF change.add = -1 THEN cc
                     ELSE FunctionLoop(cc, file_name, functions, change)
         IN  ChangeLoop(next, file_name, functions, Tail(changes))

\* ------------------------------------------------------------ the repository
\* commits are numbered in the order of their commit times, so a parent has a
\* lower number than its child; a commit has no, one or two parents
Commits == 1..MaxGraph

\* GIT_EMPTY_TREE_ID, the tree no commit has
GIT_EMPTY_TREE_ID == 0

ParentLists(c) ==
    {<<>>} \cup {<<p>> : p \in 1..(c - 1)}
           \cup {pq \in (1..(c - 1)) \X (1..(c - 1)) : pq[1] # pq[2]}

Repositories ==
    {g \in [Commits -> UNION {ParentLists(c) : c \in Commits}] :
        \A c \in Commits : g[c] \in ParentLists(c)}

RECURSIVE Ancestors(_, _)
\* a commit and all it is reachable to
Ancestors(g, c) ==
    IF c \notin Commits THEN {}
    ELSE {c} \cup UNION {Ancestors(g, g[c][i]) : i \in DOMAIN g[c]}

RECURSIVE Ascending(_)
Ascending(S) ==
    IF S = {} THEN <<>>
    ELSE LET m == CHOOSE x \in S : \A y \in S : x <= y
         IN  <<m>> \o Ascending(S \ {m})

RECURSIVE Descending(_)
Descending(S) ==
    IF S = {} THEN <<>>
    ELSE LET m == CHOOSE x \in S : \A y \in S : y <= x
         IN  <<m>> \o Descending(S \ {m})

\* repository.walk(start) with walker.hide(hidden): the commits reachable from
\* start and not from hidden (0: nothing hidden)
Walked(g, start, hidden) == Ancestors(g, start) \ Ancestors(g, hidden)

\* mutant: only the first parent is compared
FirstParentOrEmpty(g, child_commit) ==
    IF Len(g[child_commit]) > 0 THEN <<g[child_commit][1]>>
    ELSE <<GIT_EMPTY_TREE_ID>>

\* "child_commit.parents if len(child_commit.parents) else
\*  [repository.revparse_single(GIT_EMPTY_TREE_ID)]"
get_parent_or_empty_commit(g, child_commit) ==
    IF Len(g[child_commit]) > 0 THEN g[child_commit]
    ELSE <<GIT_EMPTY_TREE_ID>>

\* the changes of one file a walk looks at; against the empty tree every file
\* is an added one and every line a new one
WalkChangeLists == {cl \in ChangeLists : Len(cl) <= MaxWalkChanges}

RootChangeLists == {cl \in WalkChangeLists : \A i \in DOMAIN cl : cl[i].remove = -1}

\* "for single_change in patch_summary" for one file, from an empty
\* commit_change: skipped without a new file and for a submodule
SummaryChange(summary, is_submodule, structure) ==
    IF ~summary.has_new_file THEN NoCommitChange
    ELSE IF is_submodule THEN NoCommitChange
    ELSE ChangeLoop(NoCommitChange, summary.new_file, FunctionsOf(structure),
                    summary.changes)

\* what the diff against a parent can add to commit_change
ParentDiffChanges ==
    {SummaryChange(PatchSummary(TheFile, has_new_file, cl), is_submodule, structure) :
        has_new_file \in BOOLEAN, cl \in WalkChangeLists, is_submodule \in BOOLEAN,
        structure \in CtagsOutputsUpTo(MaxPatchTags)}

\* what the diff against the empty tree can add to commit_change
RootDiffChanges ==
    {SummaryChange(PatchSummary(TheFile, TRUE, cl), FALSE, structure) :
        cl \in RootChangeLists, structure \in CtagsOutputsUpTo(MaxPatchTags)}

\* "commit_change.setdefault(file_name, {}).setdefault(f['name'], []).append":
\* the tuples of a later diff follow those of an earlier one
Appended(cc, more) ==
    [f \in Filenames |-> [n \in Names |-> cc[f][n] \o more[f][n]]]

\* the diffs compare_patches_in_range hands to compute_diffs
WalkPatchLists == {ps \in PatchLists : Len(ps) <= MaxWalkPatches}


\* ------------------------------------------------------------------ state
VARIABLES
    current_fn_map,        \* FileDifferences.current_fn_map
    prev_fn_map,           \* FileDifferences.prev_fn_map
    fn_to_changed_lines,   \* FileDifferences.fn_to_changed_lines
    hunk,                  \* the lines of the hunk compute_diffs looked at last
    new_fn_lines,          \* compute_diffs, local of the hunk loop
    old_fn_lines,          \* compute_diffs, local of the hunk loop
    success,               \* what match_lines_to_fn returned last
    old_next,              \* lowest old line the next hunk may start at
    delta,                 \* lines added less lines removed by the hunks so far
    hunks_done,            \* hunks of the patch seen so far
    file_diffs,            \* DiffSummary.file_diffs, the dict of each file
    updated_fn_count,      \* DiffSummary.updated_fn_count
    other_changed,         \* RepoManager.other_changed
    path_filter,           \* RepoManager.path_filter
    has_c_files,           \* compute_diffs, local
    has_updated_fn,        \* compute_diffs, local
    commit_new,            \* compute_diffs, the commit of the call (0: none yet)
    patches,               \* compute_diffs, the patches of the diff
    patch_no,              \* compute_diffs, patches looked at so far
    single_change,         \* generate_repository_changes, one file of the summary
    file_structure,        \* generate_repository_changes, the ctags entries
    commit_change,         \* generate_repository_changes, the commit's matches
    parents,               \* the repository: the parents of each commit
    start_commit,          \* the newest revision asked for
    end_commit,            \* the oldest revision asked for (0: none)
    walker,                \* the commits the walker has yet to hand out
    commit,                \* the commit of the walk loop (0: none yet)
    to_diff,               \* parents of the commit yet to compare against
    prev_commit,           \* compare_patches_in_range, prev_commit
    commit_old,            \* compute_diffs, the commit_old of the call
    diffs,                 \* every repository.diff(left, right) so far
    changes,               \* generate_repository_changes, changes
    fn_updated_per_commit, \* RepoManager.fn_updated_per_commit, the dict as the
                           \* sequence of its [updated_fn, commits] items
    entry_point,           \* the method of RepoManager main has called
    reports,               \* calls of print_simple and diff_for_json so far
    file_to_changed_lines, \* what diff_for_json returned last
    pc                     \* where the entry point stands

fileVars == <<current_fn_map, prev_fn_map, fn_to_changed_lines, hunk,
              new_fn_lines, old_fn_lines, success, old_next, delta, hunks_done>>

summaryVars == <<file_diffs, updated_fn_count>>

repoVars == <<other_changed, path_filter, has_c_files, has_updated_fn,
              commit_new, patches, patch_no>>

changeVars == <<single_change, file_structure, commit_change>>

walkVars == <<parents, start_commit, end_commit, walker, commit, to_diff,
              prev_commit, commit_old, diffs, changes>>

aggVars == <<fn_updated_per_commit, entry_point>>

reportVars == <<reports, file_to_changed_lines>>

vars == <<fileVars, summaryVars, repoVars, changeVars, walkVars, aggVars,
          reportVars, pc>>

\* the state of an entry point that does not run generate_repository_changes
NoChange ==
    /\ single_change = PatchSummary(TheFile, TRUE, <<>>)
    /\ file_structure = <<>>
    /\ commit_change = NoCommitChange

\* RepoManager.__init__: "self.fn_updated_per_commit = {}"; nothing called,
\* nothing reported
NoReport ==
    /\ fn_updated_per_commit = <<>>
    /\ entry_point = "none"
    /\ reports = 0
    /\ file_to_changed_lines = <<>>

\* the state of an entry point that walks no repository
NoWalk ==
    /\ parents = [c \in Commits |-> <<>>]
    /\ start_commit = 0
    /\ end_commit = 0
    /\ walker = <<>>
    /\ commit = 0
    /\ to_diff = <<>>
    /\ prev_commit = 0
    /\ commit_old = 0
    /\ diffs = <<>>
    /\ changes = <<>>

\* every table one ctags run can lead to
FnMaps == {get_fn_names(out, err) : out \in CtagsOutputs, err \in BOOLEAN}

RECURSIVE CountLines(_)
\* mutant: the attributed lines are counted, not the names
CountLines(ftcl) ==
    IF ftcl = <<>> THEN 0
    ELSE Len(Head(ftcl).added_lines) + Len(Head(ftcl).removed_lines)
         + CountLines(Tail(ftcl))

\* DiffSummary.add_file_diff: what the file adds to updated_fn_count
FnCountOf(ftcl) == Len(ftcl)

\* ---------------------------------------------------- FileDifferences alone
\* FileDifferences.__init__: both tables read, no line attributed yet
InitFile ==
    /\ current_fn_map \in FnMaps
    /\ prev_fn_map \in FnMaps
    /\ fn_to_changed_lines = <<>>
    /\ hunk = <<>>
    /\ new_fn_lines = <<>>
    /\ old_fn_lines = <<>>
    /\ success = FALSE
    /\ old_next = 1
    /\ delta = 0
    /\ hunks_done = 0
    /\ file_diffs = <<>>
    /\ updated_fn_count = 0
    /\ other_changed = NoOtherChanged
    /\ path_filter = <<>>
    /\ has_c_files = TRUE
    /\ has_updated_fn = FALSE
    /\ commit_new = 1
    /\ patches = <<TheFile>>
    /\ patch_no = 1
    /\ NoChange
    /\ NoWalk
    /\ pc = "hunks"
    /\ NoReport

\* compute_diffs, one round of "for hunk in patch.hunks"
ProcessHunk ==
    /\ pc = "hunks"
    /\ hunks_done < MaxHunks
    /\ \E h \in Hunks(old_next, delta),
          order \in Orders(Keys(current_fn_map) \cup Keys(prev_fn_map)) :
          LET nl  == NewFnLines(h)
              ol  == OldFnLines(h)
              res == match_lines_to_fn(order, current_fn_map, prev_fn_map,
                                       fn_to_changed_lines, nl, ol)
              oc  == Cardinality({i \in DOMAIN h : h[i].old_lineno > -1})
              nc  == Cardinality({i \in DOMAIN h : h[i].new_lineno > -1})
              p   == IF oc > 0 THEN h[1].old_lineno ELSE h[1].new_lineno - delta
          IN  /\ hunk' = h
              /\ new_fn_lines' = nl
              /\ old_fn_lines' = ol
              /\ fn_to_changed_lines' = res.ftcl
              /\ success' = res.success
              /\ old_next' = p + oc + 1
              /\ delta' = delta + nc - oc
              /\ has_updated_fn' = (has_updated_fn \/ res.success)
    /\ hunks_done' = hunks_done + 1
    /\ UNCHANGED walkVars
    /\ UNCHANGED <<current_fn_map, prev_fn_map, summaryVars, other_changed,
                   path_filter, has_c_files, commit_new, patches, patch_no,
                   changeVars, pc>>
    /\ UNCHANGED <<aggVars, reportVars>>

\* compute_diffs, "diff_summary.add_file_diff(diff_data)" after the last hunk
AddFileDiff ==
    /\ pc = "hunks"
    /\ file_diffs' = Append(file_diffs, FileDiff(TheFile, fn_to_changed_lines))
    /\ updated_fn_count' =
           updated_fn_count + FnCountOf(fn_to_changed_lines)
    /\ pc' = "added"
    /\ UNCHANGED walkVars
    /\ UNCHANGED <<fileVars, repoVars, changeVars>>
    /\ UNCHANGED <<aggVars, reportVars>>

NextFile == ProcessHunk \/ AddFileDiff

SpecFile == InitFile /\ [][NextFile]_vars

\* ------------------------------------------------------ compute_diffs, whole
RECURSIVE HunkLoop(_, _, _, _, _, _, _)
\* compute_diffs, "for hunk in patch.hunks" run to its end on one file: every
\* dict the file can end with, with whether a hunk reported an updated function
HunkLoop(cur, prev, ftcl, updated, from, d, n) ==
    {[fn_to_changed_lines |-> ftcl, updated |-> updated]}
    \cup
    (IF n = 0 THEN {}
     ELSE UNION {
        LET nl  == NewFnLines(h)
            ol  == OldFnLines(h)
            oc  == Cardinality({i \in DOMAIN h : h[i].old_lineno > -1})
            nc  == Cardinality({i \in DOMAIN h : h[i].new_lineno > -1})
            p   == IF oc > 0 THEN h[1].old_lineno ELSE h[1].new_lineno - d
        IN  UNION {
              LET res == match_lines_to_fn(order, cur, prev, ftcl, nl, ol)
              IN  HunkLoop(cur, prev, res.ftcl, updated \/ res.success,
                           p + oc + 1, d + nc - oc, n - 1) :
              order \in Orders(Keys(cur) \cup Keys(prev))} :
        h \in Hunks(from, d)})

\* what FileDifferences(...) and the hunk loop can leave of one eligible patch
PatchOutcomes ==
    LET maps == {get_fn_names(out, err) :
                    out \in CtagsOutputsUpTo(MaxPatchTags), err \in BOOLEAN}
    IN  UNION {HunkLoop(cur, prev, <<>>, FALSE, 1, 0, MaxHunks) :
                  cur \in maps, prev \in maps}

\* mutant: the commit counts as one without function change whenever it has a
\* .c file
HasCFilesOnly(has_c, has_updated) == has_c

\* compute_diffs: "if has_c_files and not has_updated_fn"
NoFunctionChanged(has_c, has_updated) == has_c /\ ~has_updated

\* RepoManager.__init__, before any call of compute_diffs
Init ==
    /\ current_fn_map = EmptyFnMap
    /\ prev_fn_map = EmptyFnMap
    /\ fn_to_changed_lines = <<>>
    /\ hunk = <<>>
    /\ new_fn_lines = <<>>
    /\ old_fn_lines = <<>>
    /\ success = FALSE
    /\ old_next = 1
    /\ delta = 0
    /\ hunks_done = 0
    /\ file_diffs = <<>>
    /\ updated_fn_count = 0
    /\ other_changed = NoOtherChanged
    /\ path_filter \in PathFilters
    /\ has_c_files = FALSE
    /\ has_updated_fn = FALSE
    /\ commit_new = 0
    /\ patches = <<>>
    /\ patch_no = 0
    /\ NoChange
    /\ NoWalk
    /\ pc = "idle"
    /\ NoReport

\* compute_diffs is called on the diff of the next commit
ComputeDiffs ==
    /\ pc \in {"idle", "returned"}
    /\ commit_new < MaxCommits
    /\ commit_new' = commit_new + 1
    /\ patches' \in PatchLists
    /\ patch_no' = 0
    /\ file_diffs' = <<>>
    /\ updated_fn_count' = 0
    /\ has_c_files' = FALSE
    /\ has_updated_fn' = FALSE
    /\ pc' = "patches"
    /\ UNCHANGED walkVars
    /\ UNCHANGED <<fileVars, other_changed, path_filter, changeVars>>
    /\ UNCHANGED <<aggVars, reportVars>>

\* "for patch in patches": the path filter rejects the file
SkipFiltered ==
    /\ pc = "patches"
    /\ patch_no < Len(patches)
    /\ FilteredOut(path_filter, patches[patch_no + 1])
    /\ patch_no' = patch_no + 1
    /\ UNCHANGED walkVars
    /\ UNCHANGED <<fileVars, summaryVars, other_changed, path_filter, has_c_files,
                   has_updated_fn, commit_new, patches, changeVars, pc>>
    /\ UNCHANGED <<aggVars, reportVars>>

\* "for patch in patches": the extension is not an allowed one
OtherExtension ==
    /\ pc = "patches"
    /\ patch_no < Len(patches)
    /\ LET filename  == patches[patch_no + 1]
           extension == get_extension(filename)
       IN  /\ ~FilteredOut(path_filter, filename)
           /\ extension \notin allowed_extensions
           /\ other_changed' = AddCommit(other_changed, extension, commit_new)
    /\ patch_no' = patch_no + 1
    /\ UNCHANGED walkVars
    /\ UNCHANGED <<fileVars, summaryVars, path_filter, has_c_files,
                   has_updated_fn, commit_new, patches, changeVars, pc>>
    /\ UNCHANGED <<aggVars, reportVars>>

\* "for patch in patches": a file of an allowed extension, its hunks and
\* add_file_diff
ProcessPatch ==
    /\ pc = "patches"
    /\ patch_no < Len(patches)
    /\ LET filename == patches[patch_no + 1]
       IN  /\ ~FilteredOut(path_filter, filename)
           /\ get_extension(filename) \in allowed_extensions
           /\ \E o \in PatchOutcomes :
                 /\ has_updated_fn' = (has_updated_fn \/ o.updated)
                 /\ file_diffs' =
                        Append(file_diffs, FileDiff(filename, o.fn_to_changed_lines))
                 /\ updated_fn_count' =
                        updated_fn_count + FnCountOf(o.fn_to_changed_lines)
    /\ has_c_files' = TRUE
    /\ patch_no' = patch_no + 1
    /\ UNCHANGED walkVars
    /\ UNCHANGED <<fileVars, other_changed, path_filter, commit_new, patches,
                   changeVars, pc>>
    /\ UNCHANGED <<aggVars, reportVars>>

\* after the last patch: the '.c' entry, and return diff_summary
Return ==
    /\ pc = "patches"
    /\ patch_no = Len(patches)
    /\ other_changed' =
          IF NoFunctionChanged(has_c_files, has_updated_fn)
          THEN AddCommit(other_changed, c_ext, commit_new)
          ELSE other_changed
    /\ pc' = "returned"
    /\ UNCHANGED walkVars
    /\ UNCHANGED <<fileVars, summaryVars, path_filter, has_c_files, has_updated_fn,
                   commit_new, patches, patch_no, changeVars>>
    /\ UNCHANGED <<aggVars, reportVars>>

Next == ComputeDiffs \/ SkipFiltered \/ OtherExtension \/ ProcessPatch \/ Return

Spec == Init /\ [][Next]_vars

\* ---------------------------------- generate_repository_changes, one file
\* one file of a patch summary with a new file, its blob analysed
InitChange ==
    /\ current_fn_map = EmptyFnMap
    /\ prev_fn_map = EmptyFnMap
    /\ fn_to_changed_lines = <<>>
    /\ hunk = <<>>
    /\ new_fn_lines = <<>>
    /\ old_fn_lines = <<>>
    /\ success = FALSE
    /\ old_next = 1
    /\ delta = 0
    /\ hunks_done = 0
    /\ file_diffs = <<>>
    /\ updated_fn_count = 0
    /\ other_changed = NoOtherChanged
    /\ path_filter = <<>>
    /\ has_c_files = FALSE
    /\ has_updated_fn = FALSE
    /\ commit_new = 1
    /\ patches = <<>>
    /\ patch_no = 0
    /\ \E cl \in ChangeLists :
          single_change = PatchSummary(TheFile, TRUE, cl)
    /\ file_structure \in CtagsOutputs
    /\ commit_change = NoCommitChange
    /\ NoWalk
    /\ pc = "changes"
    /\ NoReport

\* "for change in single_change['changes']" run to its end
AttributeChanges ==
    /\ pc = "changes"
    /\ commit_change' =
          ChangeLoop(commit_change, single_change.new_file,
                     FunctionsOf(file_structure), single_change.changes)
    /\ pc' = "attributed"
    /\ UNCHANGED walkVars
    /\ UNCHANGED <<fileVars, summaryVars, repoVars, single_change, file_structure>>
    /\ UNCHANGED <<aggVars, reportVars>>

NextChange == AttributeChanges

SpecChange == InitChange /\ [][NextChange]_vars

\* ------------------------------------- generate_repository_changes, the walk
\* no FileDifferences, DiffSummary or RepoManager: diffanalyze2.py has none
NoRepoManager ==
    /\ current_fn_map = EmptyFnMap
    /\ prev_fn_map = EmptyFnMap
    /\ fn_to_changed_lines = <<>>
    /\ hunk = <<>>
    /\ new_fn_lines = <<>>
    /\ old_fn_lines = <<>>
    /\ success = FALSE
    /\ old_next = 1
    /\ delta = 0
    /\ hunks_done = 0
    /\ file_diffs = <<>>
    /\ updated_fn_count = 0
    /\ other_changed = NoOtherChanged
    /\ path_filter = <<>>
    /\ has_c_files = FALSE
    /\ has_updated_fn = FALSE
    /\ commit_new = 0
    /\ patches = <<>>
    /\ patch_no = 0

\* the walker is set up: newest first, the old revision and its ancestors hidden
Init2 ==
    /\ NoRepoManager
    /\ NoChange
    /\ parents \in Repositories
    /\ start_commit \in Commits
    /\ end_commit \in {0} \cup Commits
    /\ walker = Descending(Walked(parents, start_commit, end_commit))
    /\ commit = 0
    /\ to_diff = <<>>
    /\ prev_commit = 0
    /\ commit_old = 0
    /\ diffs = <<>>
    /\ changes = <<>>
    /\ pc = "walk"
    /\ NoReport

\* "for commit in walker": commit_change = {}, and the commits to compare with
NextCommit ==
    /\ pc = "walk"
    /\ walker # <<>>
    /\ commit' = Head(walker)
    /\ walker' = Tail(walker)
    /\ commit_change' = NoCommitChange
    /\ to_diff' = get_parent_or_empty_commit(parents, Head(walker))
    /\ pc' = "parents"
    /\ UNCHANGED <<fileVars, summaryVars, repoVars, single_change, file_structure,
                   parents, start_commit, end_commit, prev_commit, commit_old,
                   diffs, changes>>
    /\ UNCHANGED <<aggVars, reportVars>>

\* "for parent_commit in ...": gather_diff_information and the loop over the
\* patch summary
DiffParent ==
    /\ pc = "parents"
    /\ to_diff # <<>>
    /\ LET parent_commit == Head(to_diff)
       IN  /\ diffs' = Append(diffs, <<parent_commit, commit>>)
           /\ \E more \in (IF parent_commit = GIT_EMPTY_TREE_ID
                           THEN RootDiffChanges ELSE ParentDiffChanges) :
                 commit_change' = Appended(commit_change, more)
    /\ to_diff' = Tail(to_diff)
    /\ UNCHANGED <<fileVars, summaryVars, repoVars, single_change, file_structure,
                   parents, start_commit, end_commit, walker, commit, prev_commit,
                   commit_old, changes, pc>>
    /\ UNCHANGED <<aggVars, reportVars>>

\* FileAnalyzer.analyse_file: ctags wrote to stderr, RuntimeError
AnalyseFails ==
    /\ pc = "parents"
    /\ to_diff # <<>>
    /\ diffs' = Append(diffs, <<Head(to_diff), commit>>)
    /\ pc' = "error"
    /\ UNCHANGED <<fileVars, summaryVars, repoVars, changeVars, parents,
                   start_commit, end_commit, walker, commit, to_diff, prev_commit,
                   commit_old, changes>>
    /\ UNCHANGED <<aggVars, reportVars>>

\* "changes.append((str(commit.id), commit_change))"
AppendChange ==
    /\ pc = "parents"
    /\ to_diff = <<>>
    /\ changes' = Append(changes, <<commit, commit_change>>)
    /\ pc' = "walk"
    /\ UNCHANGED <<fileVars, summaryVars, repoVars, changeVars, parents,
                   start_commit, end_commit, walker, commit, to_diff, prev_commit,
                   commit_old, diffs>>
    /\ UNCHANGED <<aggVars, reportVars>>

\* "return changes"
ReturnChanges ==
    /\ pc = "walk"
    /\ walker = <<>>
    /\ pc' = "done"
    /\ UNCHANGED <<fileVars, summaryVars, repoVars, changeVars, walkVars>>
    /\ UNCHANGED <<aggVars, reportVars>>

Next2 == NextCommit \/ DiffParent \/ AnalyseFails \/ AppendChange \/ ReturnChanges

Spec2 == Init2 /\ [][Next2]_vars

\* --------------------------------------------- diffanalyze.py, main's walks
\* RepoManager.__init__ on a repository, no entry point called yet
InitRange ==
    /\ current_fn_map = EmptyFnMap
    /\ prev_fn_map = EmptyFnMap
    /\ fn_to_changed_lines = <<>>
    /\ hunk = <<>>
    /\ new_fn_lines = <<>>
    /\ old_fn_lines = <<>>
    /\ success = FALSE
    /\ old_next = 1
    /\ delta = 0
    /\ hunks_done = 0
    /\ file_diffs = <<>>
    /\ updated_fn_count = 0
    /\ other_changed = NoOtherChanged
    /\ path_filter \in PathFilters
    /\ has_c_files = FALSE
    /\ has_updated_fn = FALSE
    /\ commit_new = 0
    /\ patches = <<>>
    /\ patch_no = 0
    /\ NoChange
    /\ parents \in Repositories
    /\ start_commit \in Commits
    /\ end_commit \in {0} \cup Commits
    /\ walker = <<>>
    /\ commit = 0
    /\ to_diff = <<>>
    /\ prev_commit = 0
    /\ commit_old = 0
    /\ diffs = <<>>
    /\ changes = <<>>
    /\ pc = "idle"
    /\ NoReport

\* compare_patches_in_range up to its loop: commit_old is the end revision, or
\* start_revision + "~1", which does not resolve for a commit without parents;
\* the walker goes oldest first with commit_old and its ancestors hidden
ComparePatchesInRange ==
    /\ pc = "idle"
    /\ IF end_commit = 0 /\ parents[start_commit] = <<>>
       THEN /\ pc' = "error"
            /\ UNCHANGED <<walker, prev_commit>>
       ELSE LET old == IF end_commit # 0 THEN end_commit
                       ELSE parents[start_commit][1]
            IN  /\ walker' = Ascending(Walked(parents, start_commit, old))
                /\ prev_commit' = old
                /\ pc' = "walk"
    /\ UNCHANGED <<fileVars, summaryVars, repoVars, changeVars, parents,
                   start_commit, end_commit, commit, to_diff, commit_old, diffs,
                   changes>>
    /\ entry_point' = "compare_patches_in_range"
    /\ UNCHANGED <<fn_updated_per_commit, reportVars>>

\* get_updated_fn_per_commit: "original_repo = self.get_repo(prev_repo_path)"
\* names a variable nothing defines, NameError before any commit is looked at
GetUpdatedFnPerCommit ==
    /\ pc = "idle"
    /\ pc' = "error"
    /\ UNCHANGED <<fileVars, summaryVars, repoVars, changeVars, walkVars>>
    /\ entry_point' = "get_updated_fn_per_commit"
    /\ UNCHANGED <<fn_updated_per_commit, reportVars>>

\* "for commit in walker": the diff against commit.parents[0] and the call of
\* compute_diffs up to its loop; prev_commit = commit follows the call
RangeCommit ==
    /\ pc \in {"walk", "returned"}
    /\ walker # <<>>
    /\ parents[Head(walker)] # <<>>
    /\ commit' = Head(walker)
    /\ walker' = Tail(walker)
    /\ diffs' = Append(diffs, <<parents[Head(walker)][1], Head(walker)>>)
    /\ commit_new' = Head(walker)
    /\ commit_old' = prev_commit
    /\ prev_commit' = Head(walker)
    /\ patches' \in WalkPatchLists
    /\ patch_no' = 0
    /\ file_diffs' = <<>>
    /\ updated_fn_count' = 0
    /\ has_c_files' = FALSE
    /\ has_updated_fn' = FALSE
    /\ pc' = "patches"
    /\ UNCHANGED <<fileVars, other_changed, path_filter, changeVars, parents,
                   start_commit, end_commit, to_diff, changes>>
    /\ UNCHANGED <<aggVars, reportVars>>

\* "for commit in walker": commit.parents[0] of a commit without parents,
\* IndexError
RangeRootCommit ==
    /\ pc \in {"walk", "returned"}
    /\ walker # <<>>
    /\ parents[Head(walker)] = <<>>
    /\ commit' = Head(walker)
    /\ walker' = Tail(walker)
    /\ pc' = "error"
    /\ UNCHANGED <<fileVars, summaryVars, repoVars, changeVars, parents,
                   start_commit, end_commit, to_diff, prev_commit, commit_old,
                   diffs, changes>>
    /\ UNCHANGED <<aggVars, reportVars>>

\* the walker is empty: the clones are removed
RangeDone ==
    /\ pc \in {"walk", "returned"}
    /\ walker = <<>>
    /\ pc' = "done"
    /\ UNCHANGED <<fileVars, summaryVars, repoVars, changeVars, walkVars>>
    /\ UNCHANGED <<aggVars, reportVars>>

NextRange ==
    \/ ComparePatchesInRange
    \/ GetUpdatedFnPerCommit
    \/ RangeCommit
    \/ RangeRootCommit
    \/ SkipFiltered
    \/ OtherExtension
    \/ ProcessPatch
    \/ Return
    \/ RangeDone

SpecRange == InitRange /\ [][NextRange]_vars

\* ----------------------------------------------- reporting on a diff summary
\* the dicts compute_diffs can leave of one eligible file whose images have
\* these tables
ReportDicts(tables) ==
    {o.fn_to_changed_lines :
        o \in UNION {HunkLoop(cur, prev, <<>>, FALSE, 1, 0, MaxHunks) :
                        cur \in tables, prev \in tables}}

\* "lines.sort()"
Sorted(lines) == SortSeq(lines, LAMBDA a, b : a < b)

\* FileDifferences.print_simple, what it leaves of the dict: lines is the list
\* added_lines itself, "lines += line_manager.removed_lines" extends it in
\* place, and with only_added "lines.sort()" sorts it in place
print_simple(ftcl, only_added) ==
    [i \in DOMAIN ftcl |->
        [ftcl[i] EXCEPT !.added_lines =
            IF only_added THEN Sorted(@) ELSE @ \o ftcl[i].removed_lines]]

RECURSIVE AddedOfAll(_)
\* the added lines of the records that have any, one after the other
AddedOfAll(ftcl) ==
    IF ftcl = <<>> THEN <<>>
    ELSE Head(ftcl).added_lines \o AddedOfAll(Tail(ftcl))

\* DiffSummary.diff_for_json, what it leaves of the dict of one file: the entry
\* of the file is the list added_lines of the first record that has added
\* lines, and extend() puts the added lines of the later records into it
diff_for_json(ftcl) ==
    LET with_added == {i \in DOMAIN ftcl : ftcl[i].added_lines # <<>>}
    IN  IF with_added = {} THEN ftcl
        ELSE LET first == CHOOSE i \in with_added : \A j \in with_added : i <= j
             IN  [ftcl EXCEPT ![first].added_lines = AddedOfAll(ftcl)]

\* the dict diff_for_json returns, as the sequence of its items
JsonOf(diffs_of_files) ==
    LET kept == SelectSeq(diffs_of_files,
                          LAMBDA d : AddedOfAll(d.fn_to_changed_lines) # <<>>)
    IN  [i \in DOMAIN kept |->
            [filename |-> kept[i].filename,
             lines    |-> AddedOfAll(kept[i].fn_to_changed_lines)]]

\* compute_diffs has returned the summary of a commit with one eligible file
InitReport ==
    /\ current_fn_map = EmptyFnMap
    /\ prev_fn_map = EmptyFnMap
    /\ fn_to_changed_lines = <<>>
    /\ hunk = <<>>
    /\ new_fn_lines = <<>>
    /\ old_fn_lines = <<>>
    /\ success = FALSE
    /\ old_next = 1
    /\ delta = 0
    /\ hunks_done = 0
    /\ \E d \in ReportDicts(FnMaps) :
          /\ file_diffs = <<FileDiff(TheFile, d)>>
          /\ updated_fn_count = FnCountOf(d)
          /\ has_updated_fn = (d # <<>>)
    /\ other_changed = NoOtherChanged
    /\ path_filter = <<>>
    /\ has_c_files = TRUE
    /\ commit_new = 1
    /\ patches = <<TheFile>>
    /\ patch_no = 1
    /\ NoChange
    /\ NoWalk
    /\ fn_updated_per_commit = <<>>
    /\ entry_point = "none"
    /\ reports = 0
    /\ file_to_changed_lines = <<>>
    /\ pc = "returned"

\* OutputManager.print_diff_summary_simple: print_simple on every file
PrintDiffSummarySimple ==
    /\ pc = "returned"
    /\ reports < MaxReports
    /\ \E only_added \in BOOLEAN :
          file_diffs' =
              [i \in DOMAIN file_diffs |->
                  [file_diffs[i] EXCEPT !.fn_to_changed_lines =
                      print_simple(@, only_added)]]
    /\ reports' = reports + 1
    /\ UNCHANGED <<fileVars, updated_fn_count, repoVars, changeVars, walkVars,
                   aggVars, file_to_changed_lines, pc>>

\* DiffSummary.diff_for_json
DiffForJson ==
    /\ pc = "returned"
    /\ reports < MaxReports
    /\ file_diffs' =
          [i \in DOMAIN file_diffs |->
              [file_diffs[i] EXCEPT !.fn_to_changed_lines = diff_for_json(@)]]
    /\ file_to_changed_lines' = JsonOf(file_diffs)
    /\ reports' = reports + 1
    /\ UNCHANGED <<fileVars, updated_fn_count, repoVars, changeVars, walkVars,
                   aggVars, pc>>

NextReport == PrintDiffSummarySimple \/ DiffForJson

SpecReport == InitReport /\ [][NextReport]_vars

\* ------------------------------------------------------------------ claims
\* how often a line stands in the added (removed) lines of a name's record
AddedCount(ftcl, fn_name, l) ==
    IF \E i \in DOMAIN ftcl : ftcl[i].fn_name = fn_name
    THEN Count(ftcl[CHOOSE i \in DOMAIN ftcl : ftcl[i].fn_name = fn_name].added_lines, l)
    ELSE 0

RemovedCount(ftcl, fn_name, l) ==
    IF \E i \in DOMAIN ftcl : ftcl[i].fn_name = fn_name
    THEN Count(ftcl[CHOOSE i \in DOMAIN ftcl : ftcl[i].fn_name = fn_name].removed_lines, l)
    ELSE 0

\* C1: whenever match_lines_to_fn has run on a hunk, for every name of either
\* table and every line number: the line is added to the name's added lines iff
\* it is a NEW line of the hunk and some variant of the name in the post-image
\* table has start_line <= line <= end_line; it is added to the removed lines
\* iff it is an OLD line of the hunk and some pre-image variant holds it.
C1_LineAddedIffContained ==
    [][hunks_done' = hunks_done + 1 =>
        \A n \in Names, l \in Lines :
            /\ (AddedCount(fn_to_changed_lines', n, l)
                    > AddedCount(fn_to_changed_lines, n, l))
               <=> (/\ l \in Range(new_fn_lines')
                    /\ \E i \in DOMAIN current_fn_map[n] :
                          /\ current_fn_map[n][i].start_line <= l
                          /\ l <= current_fn_map[n][i].end_line)
            /\ (RemovedCount(fn_to_changed_lines', n, l)
                    > RemovedCount(fn_to_changed_lines, n, l))
               <=> (/\ l \in Range(old_fn_lines')
                    /\ \E i \in DOMAIN prev_fn_map[n] :
                          /\ prev_fn_map[n][i].start_line <= l
                          /\ l <= prev_fn_map[n][i].end_line)]_vars

\* a hunk gave one name an added line on its end line and a removed line, and
\* left a NEW line of the hunk outside every variant of another name
C1_Witness ==
    /\ hunks_done >= 1
    /\ \E i \in DOMAIN fn_to_changed_lines :
          LET r == fn_to_changed_lines[i]
          IN  /\ r.removed_lines # <<>>
              /\ \E l \in Range(r.added_lines) :
                    \E k \in DOMAIN current_fn_map[r.fn_name] :
                        current_fn_map[r.fn_name][k].end_line = l
    /\ \E n \in Keys(current_fn_map), l \in Range(new_fn_lines) :
          AddedCount(fn_to_changed_lines, n, l) = 0

\* the OLD lines of the hunk looked at last, blank ones included
HunkOldLines == {hunk[i].old_lineno : i \in {j \in DOMAIN hunk : hunk[j].old_lineno > -1}}

HunkOldBlank ==
    {hunk[i].old_lineno : i \in {j \in DOMAIN hunk : hunk[j].old_lineno > -1 /\ hunk[j].blank}}

\* the name is a function of the pre-image alone, with one range, and the hunk
\* looked at last removes exactly the lines of that range
DeletedWhole(n) ==
    /\ hunks_done >= 1
    /\ current_fn_map[n] = <<>>
    /\ Len(prev_fn_map[n]) = 1
    /\ HunkOldLines = prev_fn_map[n][1].start_line .. prev_fn_map[n][1].end_line

\* C7 as stated: a function that is deleted entirely (the hunk removes all of
\* its pre-image lines, the post-image has no such name) has a record whose
\* removed lines are exactly its pre-image lines and whose added lines are empty.
C7_DeletedFunctionAllLines ==
    \A n \in Names :
        DeletedWhole(n) =>
            \E i \in DOMAIN fn_to_changed_lines :
                /\ fn_to_changed_lines[i].fn_name = n
                /\ Range(fn_to_changed_lines[i].removed_lines) = HunkOldLines
                /\ fn_to_changed_lines[i].added_lines = <<>>

\* C7 amended: the record of a function deleted entirely holds exactly the
\* removed lines that are not blank, each once, and no added line; there is a
\* record iff one of the removed lines is not blank.
C7_DeletedFunctionNonBlankLines ==
    \A n \in Names :
        DeletedWhole(n) =>
            /\ (HunkOldLines \ HunkOldBlank # {}) <=>
                   \E i \in DOMAIN fn_to_changed_lines : fn_to_changed_lines[i].fn_name = n
            /\ \A i \in DOMAIN fn_to_changed_lines :
                   fn_to_changed_lines[i].fn_name = n =>
                       /\ Range(fn_to_changed_lines[i].removed_lines)
                              = HunkOldLines \ HunkOldBlank
                       /\ Len(fn_to_changed_lines[i].removed_lines)
                              = Cardinality(HunkOldLines \ HunkOldBlank)
                       /\ fn_to_changed_lines[i].added_lines = <<>>

\* a function of more than one line is deleted entirely and has its record
C7_Witness ==
    \E n \in Names :
        /\ DeletedWhole(n)
        /\ Cardinality(HunkOldLines) >= 2
        /\ HunkOldBlank = {}
        /\ \E i \in DOMAIN fn_to_changed_lines :
              /\ fn_to_changed_lines[i].fn_name = n
              /\ Len(fn_to_changed_lines[i].removed_lines) >= 2

\* C9: once the file is added to the summary, every name with an attributed
\* added line has one record, and the file has added to updated_fn_count one
\* for each name that has a record, however many variants or hunks held lines.
C9_OnePerName ==
    pc = "added" =>
        /\ \A n \in Names :
              (\E i \in DOMAIN fn_to_changed_lines :
                  fn_to_changed_lines[i].fn_name = n
                  /\ fn_to_changed_lines[i].added_lines # <<>>)
              => Cardinality({i \in DOMAIN fn_to_changed_lines :
                                 fn_to_changed_lines[i].fn_name = n}) = 1
        /\ updated_fn_count =
              Cardinality({fn_to_changed_lines[i].fn_name : i \in DOMAIN fn_to_changed_lines})

\* two variants of one name both hold the added line of the first hunk, the
\* second hunk gave the name a removed line, and the name counts once
C9_Witness ==
    /\ pc = "added"
    /\ hunks_done = 2
    /\ updated_fn_count = 1
    /\ new_fn_lines = <<>>
    /\ old_fn_lines # <<>>
    /\ \E i \in DOMAIN fn_to_changed_lines :
          LET r == fn_to_changed_lines[i]
          IN  /\ Len(current_fn_map[r.fn_name]) = 2
              /\ \E l \in Lines : Count(r.added_lines, l) = 2
              /\ r.removed_lines = old_fn_lines

\* C10 as stated: the added and the removed lines of a record are sets, no line
\* number stands in either more than once.
C10_LinesAreSets ==
    \A i \in DOMAIN fn_to_changed_lines, l \in Lines :
        /\ Count(fn_to_changed_lines[i].added_lines, l) <= 1
        /\ Count(fn_to_changed_lines[i].removed_lines, l) <= 1

\* the commit of the call has a patch of that extension which passes the filter
ChangesFileOf(extension) ==
    \E i \in DOMAIN patches :
        /\ ~FilteredOut(path_filter, patches[i])
        /\ get_extension(patches[i]) = extension

\* a function of some file of the commit got a line
FunctionTouched ==
    \E i \in DOMAIN file_diffs : file_diffs[i].fn_to_changed_lines # <<>>

\* C3 as stated: when compute_diffs returns, the commit is registered in
\* other_changed only if no function of any eligible file of the commit was
\* touched; a commit with a touched function in a '.c' file is not registered
\* under '.md'.
C3_RegisteredOnlyIfNoFunction ==
    pc = "returned" =>
        \A e \in {<<".", "c">>, <<".", "m", "d">>} :
            commit_new \in other_changed[e] => ~FunctionTouched

\* C3 amended: when compute_diffs returns, the commit is registered under '.c'
\* only if no function of any eligible file was touched, and it is registered
\* under '.md' whenever it changes a '.md' file that passes the path filter,
\* also when a function of a '.c' file of the commit was touched.
C3_OtherExtensionAlways ==
    pc = "returned" =>
        /\ commit_new \in other_changed[<<".", "c">>] =>
              (~FunctionTouched /\ updated_fn_count = 0)
        /\ ChangesFileOf(<<".", "m", "d">>) =>
              commit_new \in other_changed[<<".", "m", "d">>]
        /\ commit_new \in other_changed[<<".", "m", "d">>] =>
              ChangesFileOf(<<".", "m", "d">>)

\* a commit with a '.c' file that has an attributed function and a '.md' file
\* has returned, and is registered under '.md' and not under '.c'
C3_Witness ==
    /\ pc = "returned"
    /\ FunctionTouched
    /\ ChangesFileOf(<<".", "m", "d">>)
    /\ ChangesFileOf(<<".", "c">>)
    /\ commit_new \in other_changed[<<".", "m", "d">>]
    /\ commit_new \notin other_changed[<<".", "c">>]

\* the hunk looked at last as a whole: the span of its NEW lines, of its OLD lines
HunkNewLines == {hunk[i].new_lineno : i \in {j \in DOMAIN hunk : hunk[j].new_lineno > -1}}

SpanMatches(fn_attr, lines) ==
    /\ lines # {}
    /\ LET change_start == CHOOSE l \in lines : \A k \in lines : l <= k
           change_end   == CHOOSE l \in lines : \A k \in lines : k <= l
       IN  \/ (fn_attr.start_line <= change_start /\ change_start <= fn_attr.end_line)
           \/ (fn_attr.start_line <= change_end /\ change_end <= fn_attr.end_line)
           \/ (change_start <= fn_attr.start_line /\ fn_attr.end_line <= change_end)

\* C2 as stated: a hunk is tested as a whole against every function range, and
\* a function whose range the hunk's span [change_start, change_end] matches
\* (an end of the span inside the range, or the range inside the span) is
\* attributed, as is one matched by the per-line test.
C2_SpanMatchAttributes ==
    hunks_done >= 1 =>
        \A n \in Names :
            (\/ \E i \in DOMAIN current_fn_map[n] :
                    SpanMatches(current_fn_map[n][i], HunkNewLines)
             \/ \E i \in DOMAIN prev_fn_map[n] :
                    SpanMatches(prev_fn_map[n][i], HunkOldLines))
            => \E i \in DOMAIN fn_to_changed_lines : fn_to_changed_lines[i].fn_name = n

\* C2 amended: match_lines_to_fn tests the lines of a hunk one by one and the
\* hunk never as a whole: a hunk gives a name lines iff one of its NEW lines
\* with content lies in a post-image range of the name, or one of its OLD lines
\* with content lies in a pre-image range of the name.
C2_PerLineOnly ==
    [][hunks_done' = hunks_done + 1 =>
        \A n \in Names :
            (\E l \in Lines :
                \/ AddedCount(fn_to_changed_lines', n, l)
                       > AddedCount(fn_to_changed_lines, n, l)
                \/ RemovedCount(fn_to_changed_lines', n, l)
                       > RemovedCount(fn_to_changed_lines, n, l))
            <=>
            (\E k \in DOMAIN hunk' :
                /\ ~hunk'[k].blank
                /\ \/ /\ hunk'[k].new_lineno > -1
                      /\ \E i \in DOMAIN current_fn_map[n] :
                            /\ current_fn_map[n][i].start_line <= hunk'[k].new_lineno
                            /\ hunk'[k].new_lineno <= current_fn_map[n][i].end_line
                   \/ /\ hunk'[k].old_lineno > -1
                      /\ \E i \in DOMAIN prev_fn_map[n] :
                            /\ prev_fn_map[n][i].start_line <= hunk'[k].old_lineno
                            /\ hunk'[k].old_lineno <= prev_fn_map[n][i].end_line)]_vars

\* the span of a hunk matches a range of a name that holds only blank lines of
\* the hunk, and the name has no record
C2_Witness ==
    /\ hunks_done = 1
    /\ \E n \in Names :
          /\ \E i \in DOMAIN current_fn_map[n] :
                SpanMatches(current_fn_map[n][i], HunkNewLines)
          /\ \A i \in DOMAIN fn_to_changed_lines : fn_to_changed_lines[i].fn_name # n
    /\ fn_to_changed_lines # <<>>

\* C6 as stated: a changed line whose content is blank is in no function
\* record, whatever ranges hold its line number.
C6_BlankLineInNoRecord ==
    pc = "attributed" =>
        \A k \in DOMAIN single_change.changes :
            LET change == single_change.changes[k]
            IN  (change.blank /\ change.add # -1) =>
                    \A n \in Names :
                        \A i \in DOMAIN commit_change[single_change.new_file][n] :
                            commit_change[single_change.new_file][n][i][1] # change.add

\* C8 as stated: a function for which ctags reports no end is not dropped: it
\* reaches from its start line to the end of the file, and every changed line
\* at or after its start line is attributed to it.
C8_NoEndNeverDropped ==
    pc = "attributed" =>
        \A j \in DOMAIN file_structure :
            (file_structure[j].kind = "function" /\ file_structure[j].end = 0) =>
                \A k \in DOMAIN single_change.changes :
                    LET change == single_change.changes[k]
                    IN  (change.add # -1 /\ change.add >= file_structure[j].line) =>
                            \E i \in DOMAIN commit_change[single_change.new_file]
                                                        [file_structure[j].name] :
                                commit_change[single_change.new_file]
                                             [file_structure[j].name][i][1] = change.add

\* C4 as stated: a commit without parents that the walk visits is compared
\* from the empty tree to the commit, and processing it does not fail.
C4_RootCommitFromEmptyTree ==
    (commit # 0 /\ parents[commit] = <<>>) =>
        /\ pc # "error"
        /\ \E i \in DOMAIN diffs : diffs[i] = <<GIT_EMPTY_TREE_ID, commit>>

\* the diffs of a commit, in the order they were taken
DiffsOf(c) == SelectSeq(diffs, LAMBDA d : d[2] = c)

\* C5 as stated: every visited commit is compared against exactly one parent,
\* its first parent if it has one and the empty tree otherwise, a merge commit
\* too.
C5_OneComparisonParent ==
    \A i \in DOMAIN changes :
        LET c == changes[i][1]
        IN  DiffsOf(c) = << <<(IF parents[c] = <<>> THEN GIT_EMPTY_TREE_ID
                               ELSE parents[c][1]), c>> >>

\* C5 amended: generate_repository_changes compares a visited commit against
\* each of its parents in their order, against the empty tree if it has none,
\* and the commit has one entry in changes that holds the matches of all these
\* diffs.
C5_EveryParentCompared ==
    /\ \A i \in DOMAIN changes :
          LET c == changes[i][1]
          IN  /\ Len(DiffsOf(c)) = (IF parents[c] = <<>> THEN 1 ELSE Len(parents[c]))
              /\ \A k \in DOMAIN DiffsOf(c) :
                    DiffsOf(c)[k][1] = (IF parents[c] = <<>> THEN GIT_EMPTY_TREE_ID
                                        ELSE parents[c][k])
    /\ \A i, j \in DOMAIN changes : changes[i][1] = changes[j][1] => i = j

\* a merge commit in changes, a function of it matched by the diff against
\* either parent
C5_Witness ==
    \E i \in DOMAIN changes :
        /\ Len(parents[changes[i][1]]) = 2
        /\ Len(DiffsOf(changes[i][1])) = 2
        /\ \E n \in Names : Len(changes[i][2][TheFile][n]) = 2

\* C11: a commit with an eligible file that passed the path filter, and with
\* no line attributed to a function in any eligible file, is in
\* other_changed['.c'] when compute_diffs has returned.
C11_NoFunctionCommitRegistered ==
    pc = "returned" =>
        ((/\ file_diffs # <<>>
          /\ \A i \in DOMAIN file_diffs : file_diffs[i].fn_to_changed_lines = <<>>)
            => commit_new \in other_changed[c_ext])

\* the second commit changed a .c file and a .md file, no function is touched,
\* and it is registered under '.c' next to the first commit
C11_Witness ==
    /\ pc = "returned"
    /\ commit_new = 2
    /\ Len(patches) = 2
    /\ Len(file_diffs) = 1
    /\ file_diffs[1].fn_to_changed_lines = <<>>
    /\ other_changed[c_ext] = {1, 2}

\* C19: when compute_diffs has returned, has_updated_fn is true iff a processed
\* file has a non-empty fn_to_changed_lines, iff updated_fn_count > 0; and
\* the commit is in other_changed['.c'] iff it had an eligible file and
\* updated_fn_count = 0.
C19_UpdatedIffRecord ==
    pc = "returned" =>
        /\ has_updated_fn
              <=> (\E i \in DOMAIN file_diffs : file_diffs[i].fn_to_changed_lines # <<>>)
        /\ has_updated_fn <=> updated_fn_count > 0
        /\ commit_new \in other_changed[c_ext]
              <=> (file_diffs # <<>> /\ updated_fn_count = 0)

\* two eligible files, one with an empty dict and one with a record: the
\* commit counts as updated and is not registered under '.c'
C19_Witness ==
    /\ pc = "returned"
    /\ Len(file_diffs) = 2
    /\ file_diffs[1].fn_to_changed_lines = <<>>
    /\ file_diffs[2].fn_to_changed_lines # <<>>
    /\ has_updated_fn
    /\ updated_fn_count = 1
    /\ commit_new \notin other_changed[c_ext]

\* C12 as stated: a failure of the extractor on one file is not fatal: the walk
\* of generate_repository_changes, where nothing else raises, never ends in an
\* error, and a commit whose comparison began gets its entry in changes.
C12_ExtractorFailureNotFatal ==
    /\ pc # "error"
    /\ (pc \in {"walk", "done"} /\ commit # 0) =>
          \E i \in DOMAIN changes : changes[i][1] = commit

\* C13 as stated: while compute_diffs works on a commit, the commit is in no
\* set of other_changed and in no bucket of fn_updated_per_commit, so that an
\* abort at this point leaves the aggregate of the commits folded before.
C13_InFlightCommitNotInAggregate ==
    pc = "patches" =>
        /\ \A e \in Extensions : commit_new \notin other_changed[e]
        /\ \A i \in DOMAIN fn_updated_per_commit :
              commit_new \notin Range(fn_updated_per_commit[i].commits)

\* C14 as stated: with an end revision that is not an ancestor of the start
\* revision the range does not resolve: no commit is visited, none attributed,
\* and the walk does not end as a success.
C14_NotAncestorNothingVisited ==
    (end_commit # 0 /\ end_commit \notin Ancestors(parents, start_commit)) =>
        /\ commit = 0
        /\ diffs = <<>>
        /\ changes = <<>>
        /\ pc # "done"

\* C15 as stated: when get_updated_fn_per_commit has ended, every commit of
\* the history that has a parent (skip_initial leaves out a root only) is in
\* exactly one bucket of fn_updated_per_commit.
C15_EveryCommitInOneBucket ==
    (entry_point = "get_updated_fn_per_commit" /\ pc \in {"done", "error"}) =>
        \A c \in Ancestors(parents, start_commit) :
            parents[c] # <<>> =>
                Cardinality({i \in DOMAIN fn_updated_per_commit :
                                c \in Range(fn_updated_per_commit[i].commits)}) = 1

\* C17 as stated: in compare_patches_in_range the commit whose checkout gives
\* the pre-image table (prev_commit, the commit_old of compute_diffs) is the
\* commit the diff was taken from, the first parent of the visited commit.
C17_PreImageIsFirstParent ==
    (entry_point = "compare_patches_in_range" /\ pc = "patches") =>
        commit_old = parents[commit_new][1]

\* the closed intervals [a, b] and [c, d] have a line in common
Intersect(a, b, c, d) == \E l \in 0..(MaxLine + 1) : a <= l /\ l <= b /\ c <= l /\ l <= d

\* C18: in generate_repository_changes an added line gives a name a tuple iff
\* the span [change_start, change_end] of the line intersects the range
\* [start, end] of a function of that name with a known end (start <= end).
C18_MatchIffIntersect ==
    pc = "attributed" =>
        \A n \in Names :
            (\A j \in DOMAIN file_structure :
                file_structure[j].name = n =>
                    (file_structure[j].end = 0
                     \/ file_structure[j].line <= file_structure[j].end))
            =>
            \A k \in DOMAIN single_change.changes :
                LET change == single_change.changes[k]
                IN  change.add # -1 =>
                      ((\E i \in DOMAIN commit_change[single_change.new_file][n] :
                            commit_change[single_change.new_file][n][i]
                                = <<change.add, change.add + change.nr>>)
                       <=>
                       (\E j \in DOMAIN file_structure :
                            /\ file_structure[j].kind = "function"
                            /\ file_structure[j].name = n
                            /\ file_structure[j].end # 0
                            /\ Intersect(change.add, change.add + change.nr,
                                         file_structure[j].line, file_structure[j].end)))

\* a function of lines 2..2 matched by the line added at 1 that spans 1..2
\* only by its end, and one of lines 1..2 not matched by a removed line
C18_Witness ==
    /\ pc = "attributed"
    /\ \E j \in DOMAIN file_structure :
          /\ file_structure[j].kind = "function"
          /\ file_structure[j].line = 2
          /\ file_structure[j].end = 2
          /\ \E i \in DOMAIN commit_change[single_change.new_file][file_structure[j].name] :
                commit_change[single_change.new_file][file_structure[j].name][i] = <<1, 2>>
    /\ \E k \in DOMAIN single_change.changes : single_change.changes[k].add = -1

\* the records of a dict as a set, their lines as sets
RecordSet(ftcl) ==
    {[fn_name |-> ftcl[i].fn_name,
      added   |-> Range(ftcl[i].added_lines),
      removed |-> Range(ftcl[i].removed_lines)] : i \in DOMAIN ftcl}

\* a table with the variants of each name in any other order
Reordered(fn_map) ==
    {[n \in Names |-> [i \in DOMAIN fn_map[n] |-> fn_map[n][o[n][i]]]] :
        o \in {f \in [Names -> UNION {Orders(DOMAIN fn_map[n]) : n \in Names}] :
                  \A n \in Names : f[n] \in Orders(DOMAIN fn_map[n])}}

\* C16: match_lines_to_fn on the same hunk and the same tables gives the same
\* records with the same sets of added and removed lines, in whatever order
\* the names and the variants of a name are gone through, and also when it is
\* run once more on its own result.
C16_OrderIndependent ==
    [][hunks_done' = hunks_done + 1 =>
        \A order \in Orders(Keys(current_fn_map) \cup Keys(prev_fn_map)),
           cur \in Reordered(current_fn_map), prev \in Reordered(prev_fn_map) :
            /\ RecordSet(match_lines_to_fn(order, cur, prev, fn_to_changed_lines,
                                           new_fn_lines', old_fn_lines').ftcl)
                  = RecordSet(fn_to_changed_lines')
            /\ RecordSet(match_lines_to_fn(order, cur, prev, fn_to_changed_lines',
                                           new_fn_lines', old_fn_lines').ftcl)
                  = RecordSet(fn_to_changed_lines')]_vars

\* one hunk has given two names a record, one of them a name with two
\* variants of different ranges that both hold a removed line
C16_Witness ==
    /\ hunks_done = 1
    /\ Len(fn_to_changed_lines) = 2
    /\ \E n \in Names :
          /\ Len(prev_fn_map[n]) = 2
          /\ prev_fn_map[n][1] # prev_fn_map[n][2]
          /\ \E i \in DOMAIN fn_to_changed_lines :
                /\ fn_to_changed_lines[i].fn_name = n
                /\ Len(fn_to_changed_lines[i].removed_lines) >= 2

\* C20 as stated: a call of print_simple or of diff_for_json leaves the added
\* and the removed lines of every record as they were: the same records, each
\* with the same line numbers.
C20_ReportingReadOnly ==
    [][reports' = reports + 1 =>
        \A f \in DOMAIN file_diffs :
            LET before == file_diffs[f].fn_to_changed_lines
                after  == file_diffs'[f].fn_to_changed_lines
            IN  /\ DOMAIN after = DOMAIN before
                /\ \A i \in DOMAIN before :
                      /\ after[i].fn_name = before[i].fn_name
                      /\ Range(after[i].added_lines) = Range(before[i].added_lines)
                      /\ Range(after[i].removed_lines) = Range(before[i].removed_lines)]_vars

====
